---- MODULE Spec2Model ----
(***************************************************************************)
(* Model of smpl::SimpleHashTable (the multi-capable table): open          *)
(* addressing with linear probing, a control plane of partial hashes       *)
(* (fastHashInfo) and redirections (redirectInfo), and a dense value       *)
(* array (arr, with extraKeyStorage in the multi variants).                *)
(*                                                                         *)
(* Widths are scaled down: the bucket floor 1024 is MinBuckets, the 64-bit *)
(* hash has HashBits bits and the 32-bit RedirectType has RedirectBits     *)
(* bits.  Bucket and value indices are zero-based, as in the source; the   *)
(* sequences that hold them are one-based, hence the +1 in every access.   *)
(***************************************************************************)
EXTENDS Integers, Sequences, FiniteSets, TLC

VARIABLES
    multi,            \* template parameter MULTI
    big,              \* template parameter BIG
    arithmeticKey,    \* std::is_arithmetic_v<Key>
    hashOf,           \* the injected hash function, HashFunc
    fastHashInfo,     \* std::vector<uint8_t>: 0 = empty, else partial hash | VALID_BIT
    redirectInfo,     \* std::vector<HashRedirectPair>: (stored hash, value index)
    arr,              \* std::vector<KVStorageType>
    extraKeyStorage,  \* std::vector<Key>, used by the multi variants only
    totalElements,    \* size_t totalElements
    rehashCounter,    \* uint64_t rehashCounter
    status,           \* "ok"; "hang": a probe loop never exits; "corrupt": a write
                      \* out of bounds; "trap": a read out of bounds stopped the program;
                      \* "throw": the operation left with std::runtime_error
    load              \* the operands and the outcome of the load test of emplace,
                      \* for the specification that checks the test on its own

vars == <<multi, big, arithmeticKey, hashOf, fastHashInfo, redirectInfo, arr,
          extraKeyStorage, totalElements, rehashCounter, status, load>>

-----------------------------------------------------------------------------
(* Bounds of the model *)
NumKeys == 3
NumVals == 2
MaxHash == 1
MaxList == 3
MaxRehash == 1
MaxEntries == 3
MaxLog2Buckets == 24
MaxHint == 6

(* Program constants, scaled *)
MinBuckets == 2
HashBits == 4
RedirectBits == 3
MixConst == 15
VALID_BIT == 128
MaxLoadBalanceNum == 13421773
FloatDen == 16777216
FloatBits == 24

Keys == 0 .. (NumKeys - 1)
Vals == 0 .. (NumVals - 1)
NoBucket == -1
\* What arr[index].begin() yields for index >= arr.size(): whatever lies behind
\* the last element of arr, the same for every read until arr changes.
PastEndList == -2

RECURSIVE Pow2(_)
Pow2(n) == IF n = 0 THEN 1 ELSE 2 * Pow2(n - 1)

RECURSIVE BitXor(_, _)
BitXor(a, b) ==
    IF a = 0 THEN b
    ELSE IF b = 0 THEN a
    ELSE ((a + b) % 2) + 2 * BitXor(a \div 2, b \div 2)

\* The table's fields as one record, so that the helpers are functions of a table.
This ==
    [fh |-> fastHashInfo, ri |-> redirectInfo, arr |-> arr,
     eks |-> extraKeyStorage, te |-> totalElements, rc |-> rehashCounter]

ZeroPair == [first |-> 0, second |-> 0]
ZeroBytes(n) == [i \in 1 .. n |-> 0]
ZeroPairs(n) == [i \in 1 .. n |-> ZeroPair]

-----------------------------------------------------------------------------
(* Hashing *)

hasher(k) == hashOf[k]

\* The multiplicative mix: the double-width product folded by xor.
RapidMix(a, b) ==
    LET p == a * b
    IN  BitXor(p % Pow2(HashBits), p \div Pow2(HashBits))

extractPartialHash_NoValidBit(hash) == RapidMix(hash, MixConst) % 256

extractPartialHash(hash) ==
    LET temp == RapidMix(hash, MixConst) % 256
    IN  IF temp >= VALID_BIT THEN temp ELSE temp + VALID_BIT

\* The largest RedirectType of the non-BIG variants, UINT_MAX.
UINT_MAX == Pow2(RedirectBits) - 1

\* The conversion of the hash to RedirectType: uint64_t with BIG, else
\* uint32_t.
extractPartialHashEx(hash) ==
    IF big THEN hash % Pow2(HashBits) ELSE hash % Pow2(RedirectBits)

-----------------------------------------------------------------------------
(* Accessors *)

getTotalBuckets(t) == Len(t.fh)

getLocationEmpty(fh, loc) == fh[loc + 1] = 0

getPartialHash(t, loc) == t.fh[loc + 1]

getPartialHashEx(t, loc) == t.ri[loc + 1].first

getRedirectInfo(t, loc) == t.ri[loc + 1].second

getDistanceFromDesiredSpot(t, loc) ==
    LET desiredLocation == getPartialHashEx(t, loc) % getTotalBuckets(t)
    IN  IF loc >= desiredLocation
        THEN loc - desiredLocation
        ELSE loc + getTotalBuckets(t) - desiredLocation

comparePartialHashEx(t, loc, h) ==
    IF arithmeticKey THEN TRUE ELSE getPartialHashEx(t, loc) = h

\* getKey of a stored entry: the entry itself for KeyValueType, the back of the
\* list for std::list<KeyValueType>.  Every arr element is held as a sequence;
\* in the single variants it has exactly one element.
getKey(e) == e[Len(e)].key

\* The key that checkForDuplicate compares against: extraKeyStorage[i] in the
\* multi variants, getKey(arr[i]) in the single ones.
StoredKey(t, i) == IF multi THEN t.eks[i + 1] ELSE getKey(t.arr[i + 1])

\* junk is what the comparison yields when the redirection points past the
\* end of the value array (a read out of bounds).
checkForDuplicate(t, loc, partialHash, extraHash, key, junk) ==
    /\ getPartialHash(t, loc) = partialHash
    /\ comparePartialHashEx(t, loc, extraHash)
    /\ IF getRedirectInfo(t, loc) < Len(t.arr)
       THEN StoredKey(t, getRedirectInfo(t, loc)) = key
       ELSE junk = "eq"

\* checkForDuplicate reads the key of an element that arr does not have.
duplicateReadsPastEnd(t, loc, partialHash, extraHash) ==
    /\ getPartialHash(t, loc) = partialHash
    /\ comparePartialHashEx(t, loc, extraHash)
    /\ getRedirectInfo(t, loc) >= Len(t.arr)

elementsAtLocation(t, arrIndex) == IF multi THEN Len(t.arr[arrIndex + 1]) ELSE 1

-----------------------------------------------------------------------------
(* Iterators *)

\* The three-argument constructors.  The multi one sets listIterator to
\* arr[index].begin() when index < ptr->size(); listPos 0 stands for a list
\* iterator that points into no list.
Iterator(t, index, all) ==
    [index |-> index, all |-> all,
     listPos |-> IF multi /\ index < t.te
                 THEN (IF index < Len(t.arr) THEN 1 ELSE PastEndList)
                 ELSE 0,
     bucketIndex |-> NoBucket, rc |-> t.rc]

\* The four-argument constructor.
IteratorAt(t, index, all, desiredListIterator) ==
    [index |-> index, all |-> all, listPos |-> desiredListIterator,
     bucketIndex |-> NoBucket, rc |-> t.rc]

end(t) == Iterator(t, Len(t.arr), TRUE)

begin(t) == Iterator(t, 0, TRUE)

\* The three-argument constructor of the multi variants reads arr[index]
\* although arr has no such element.
readsPastEnd(t, index) == multi /\ index < t.te /\ index >= Len(t.arr)

\* Building end(): "trap" when the read past the end of arr stops the program.
endOrTrap(t, junk) ==
    IF junk = "trap" /\ readsPastEnd(t, Len(t.arr)) THEN "trap" ELSE "end"

IterEq(a, b) ==
    IF multi THEN a.index = b.index /\ a.listPos = b.listPos
    ELSE a.index = b.index

\* operator* : the entry an iterator refers to.
Deref(t, it) ==
    IF multi THEN t.arr[it.index + 1][it.listPos] ELSE t.arr[it.index + 1][1]

\* operator* and operator-> have an element to refer to.  In the multi
\* variants a listIterator that was never set (listPos 0) is a
\* default-constructed std::list iterator, whose node pointer is null.
refersToElement(t, it) ==
    /\ it.index < Len(t.arr)
    /\ multi => it.listPos \in 1 .. Len(t.arr[it.index + 1])

\* operator++ on an iterator that refers to an element.  In the multi
\* variants the list iterator advances first; past the last element of its
\* list an all-mode iterator moves to the next list, and at the last list, or
\* when bucket-local, the iterator becomes ptr->end().
increment(t, it, junk) ==
    LET next ==
            IF ~multi THEN [it EXCEPT !.index = @ + 1]
            ELSE IF it.listPos < Len(t.arr[it.index + 1])
            THEN [it EXCEPT !.listPos = @ + 1]
            ELSE IF it.all /\ it.index + 1 < Len(t.arr)
            THEN [it EXCEPT !.index = @ + 1, !.listPos = 1]
            ELSE end(t)
        callsEnd == multi /\ it.listPos >= Len(t.arr[it.index + 1])
                          /\ ~(it.all /\ it.index + 1 < Len(t.arr))
    IN  IF callsEnd /\ endOrTrap(t, junk) = "trap"
        THEN [kind |-> "trap", it |-> it]
        ELSE [kind |-> "ok", it |-> [next EXCEPT !.bucketIndex = NoBucket]]

-----------------------------------------------------------------------------
(* Probing *)

\* The probe loop of emplace, try_emplace and search: walk from loc until an
\* empty bucket or a duplicate.  Nothing changes during the walk, so a walk
\* that has visited every bucket without leaving never leaves.
RECURSIVE probeLoop(_, _, _, _, _, _, _)
probeLoop(t, loc, partialHash, extraHash, key, junk, fuel) ==
    IF fuel = 0 THEN [kind |-> "hang", loc |-> loc]
    ELSE IF getLocationEmpty(t.fh, loc) THEN [kind |-> "empty", loc |-> loc]
    ELSE IF junk = "trap" /\ duplicateReadsPastEnd(t, loc, partialHash, extraHash)
         THEN [kind |-> "trap", loc |-> loc]
    ELSE IF checkForDuplicate(t, loc, partialHash, extraHash, key, junk)
         THEN [kind |-> "dup", loc |-> loc]
    ELSE probeLoop(t, (loc + 1) % getTotalBuckets(t), partialHash, extraHash,
                   key, junk, fuel - 1)

search(t, k, junk) ==
    IF Len(t.arr) = 0 THEN [kind |-> endOrTrap(t, junk), it |-> end(t)]
    ELSE
      LET actualHash == hasher(k)
          p == probeLoop(t, actualHash % getTotalBuckets(t),
                         extractPartialHash(actualHash),
                         extractPartialHashEx(actualHash), k, junk,
                         getTotalBuckets(t))
      IN  CASE p.kind = "dup" ->
                 [kind |-> "found",
                  it |-> [Iterator(t, getRedirectInfo(t, p.loc), FALSE)
                            EXCEPT !.bucketIndex = p.loc]]
            [] p.kind = "empty" -> [kind |-> endOrTrap(t, junk), it |-> end(t)]
            [] p.kind = "trap" -> [kind |-> "trap", it |-> end(t)]
            [] OTHER -> [kind |-> "hang", it |-> end(t)]

find(t, k, junk) == search(t, k, junk)

-----------------------------------------------------------------------------
(* Rehash *)

\* The probe loop of specialInsert over the new control bytes.  -1: the new
\* array has no empty bucket and the loop never exits.
RECURSIVE specialInsertLoop(_, _, _)
specialInsertLoop(newHashInfo, hashLocation, fuel) ==
    IF fuel = 0 THEN -1
    ELSE IF getLocationEmpty(newHashInfo, hashLocation) THEN hashLocation
    ELSE specialInsertLoop(newHashInfo, (hashLocation + 1) % Len(newHashInfo),
                           fuel - 1)

\* Where specialInsert starts probing: the stored hash modulo the new size.
specialInsertStart(t, nodeLocation, newSize) ==
    getPartialHashEx(t, nodeLocation) % newSize

rebalanceNewSize_NoFloor(t) ==
    LET size == getTotalBuckets(t)
    IN  IF size = 0 THEN size
        ELSE IF Len(t.arr) * 2 * FloatDen < MaxLoadBalanceNum * size THEN size \div 2
        ELSE IF Len(t.arr) * FloatDen >= MaxLoadBalanceNum * size THEN size * 2
        ELSE size

\* The size rebalance chooses.  load is a double, MaxLoadBalance a float
\* (0.8f = MaxLoadBalanceNum / FloatDen); with no bucket the load is NaN and
\* both comparisons are false.
rebalanceNewSize(t) ==
    LET size == getTotalBuckets(t)
        n == Len(t.arr)
        newSize ==
            IF size = 0 THEN size
            ELSE IF n * 2 * FloatDen < MaxLoadBalanceNum * size THEN size \div 2
            ELSE IF n * FloatDen >= MaxLoadBalanceNum * size THEN size * 2
            ELSE size
    IN  IF newSize > MinBuckets THEN newSize ELSE MinBuckets

\* The loop of rebalance over the old buckets, from bucket i on.
RECURSIVE rebalanceLoop(_, _, _, _)
rebalanceLoop(t, i, newHashInfo, newRedirectInfo) ==
    IF i = getTotalBuckets(t)
    THEN [status |-> "ok", fh |-> newHashInfo, ri |-> newRedirectInfo]
    ELSE IF getLocationEmpty(t.fh, i)
    THEN rebalanceLoop(t, i + 1, newHashInfo, newRedirectInfo)
    ELSE
      LET hashLocation ==
              specialInsertLoop(newHashInfo,
                                specialInsertStart(t, i, Len(newHashInfo)),
                                Len(newHashInfo))
      IN  IF hashLocation = -1
          THEN [status |-> "hang", fh |-> newHashInfo, ri |-> newRedirectInfo]
          ELSE rebalanceLoop(t, i + 1,
                   [newHashInfo EXCEPT ![hashLocation + 1] = t.fh[i + 1]],
                   [newRedirectInfo EXCEPT ![hashLocation + 1] = t.ri[i + 1]])

rebalance_KeepCounter(t) ==
    LET newSize == rebalanceNewSize(t)
        r == rebalanceLoop(t, 0, ZeroBytes(newSize), ZeroPairs(newSize))
    IN  IF r.status = "ok"
        THEN [status |-> "ok", t |-> [t EXCEPT !.fh = r.fh, !.ri = r.ri]]
        ELSE [status |-> "hang", t |-> t]

rebalance(t) ==
    LET newSize == rebalanceNewSize(t)
        r == rebalanceLoop([t EXCEPT !.rc = @ + 1], 0, ZeroBytes(newSize),
                           ZeroPairs(newSize))
    IN  IF r.status = "ok"
        THEN [status |-> "ok", t |-> [t EXCEPT !.rc = @ + 1, !.fh = r.fh, !.ri = r.ri]]
        ELSE [status |-> "hang", t |-> [t EXCEPT !.rc = @ + 1]]

-----------------------------------------------------------------------------
(* Insertion *)

attemptToAdd(t, key, v) ==
    IF multi
    THEN [t EXCEPT !.arr = Append(@, <<[key |-> key, val |-> v]>>),
                   !.eks = Append(@, key)]
    ELSE [t EXCEPT !.arr = Append(@, <<[key |-> key, val |-> v]>>)]

\* The duplicate branch of emplace.  The single variants return the existing
\* element; the multi variants append to the list of the bucket.
appendMultimap(t, intendedLocation, key, v) ==
    LET actualLocation == getRedirectInfo(t, intendedLocation)
    IN  IF ~multi
        THEN [status |-> "ok", t |-> t,
              ret |-> [Iterator(t, actualLocation, FALSE)
                         EXCEPT !.bucketIndex = intendedLocation]]
        ELSE IF actualLocation >= Len(t.arr)
        THEN [status |-> "corrupt", t |-> t, ret |-> end(t)]
        ELSE
          LET t1 == [t EXCEPT !.arr[actualLocation + 1] =
                                  Append(@, [key |-> key, val |-> v]),
                              !.te = @ + 1]
          IN  [status |-> "ok", t |-> t1,
               ret |-> [IteratorAt(t1, actualLocation, FALSE,
                                   Len(t1.arr[actualLocation + 1]))
                          EXCEPT !.bucketIndex = intendedLocation]]

\* a/b < c/d for a, c >= 0 and b, d > 0, by the continued fractions of the
\* two sides, so that no product leaves the range of the integers.
RECURSIVE FracLess(_, _, _, _)
FracLess(a, b, c, d) ==
    IF a \div b # c \div d THEN a \div b < c \div d
    ELSE IF c % d = 0 THEN FALSE
    ELSE IF a % b = 0 THEN TRUE
    ELSE FracLess(d, c % d, b, a % b)

\* (float)n for a size_t n: exact below 2^24, else rounded to the nearest
\* multiple of step = 2^e with n < 2^(24 + e), ties to the even multiple.
RECURSIVE FloatStep(_, _)
FloatStep(n, step) ==
    IF n < Pow2(FloatBits) * step THEN step ELSE FloatStep(n, 2 * step)

floatOf(n) ==
    LET step == FloatStep(n, 1)
        lower == n - (n % step)
    IN  IF 2 * (n % step) < step THEN lower
        ELSE IF 2 * (n % step) > step THEN lower + step
        ELSE IF (lower \div step) % 2 = 0 THEN lower
        ELSE lower + step

\* currentLoadBalance > MaxLoadBalance, with currentLoadBalance the float
\* quotient (float)arrSize / (float)buckets and MaxLoadBalance the float 0.8f
\* = MaxLoadBalanceNum / FloatDen.  Floats in [0.5, 1) are FloatDen-ths, so
\* the rounded quotient is above 0.8f iff the quotient is at least
\* (MaxLoadBalanceNum + 1/2) / FloatDen (a quotient halfway rounds to the
\* even neighbour, MaxLoadBalanceNum + 1).
currentLoadBalanceOver(arrSize, buckets) ==
    ~FracLess(floatOf(arrSize), floatOf(buckets),
              2 * MaxLoadBalanceNum + 1, 2 * FloatDen)

\* The load test of emplace: (float)arr.size() / (float)size > MaxLoadBalance.
overMaxLoad(t) == currentLoadBalanceOver(Len(t.arr), getTotalBuckets(t))

checkIfOverflowPossible_AtMax(t) == ~big /\ Len(t.arr) = UINT_MAX

\* checkIfOverflowPossible() throws: only without BIG, when arr holds
\* UINT_MAX - 1 elements.
checkIfOverflowPossible(t) == ~big /\ Len(t.arr) = UINT_MAX - 1

emplace(t0, key, v, junk) ==
    LET t == IF getTotalBuckets(t0) = 0
             THEN [t0 EXCEPT !.fh = ZeroBytes(MinBuckets),
                             !.ri = ZeroPairs(MinBuckets)]
             ELSE t0
        actualHash == hasher(key)
        partialHash == extractPartialHash(actualHash)
        extraHash == extractPartialHashEx(actualHash)
        p == probeLoop(t, actualHash % getTotalBuckets(t), partialHash,
                       extraHash, key, junk, getTotalBuckets(t))
    IN  CASE checkIfOverflowPossible(t) ->
               [status |-> "throw", t |-> t, ret |-> end(t)]
          [] p.kind = "hang" -> [status |-> "hang", t |-> t, ret |-> end(t)]
          [] p.kind = "trap" -> [status |-> "trap", t |-> t, ret |-> end(t)]
          [] p.kind = "dup" -> appendMultimap(t, p.loc, key, v)
          [] OTHER ->
               LET t1 == attemptToAdd(t, key, v)
                   t2 == [t1 EXCEPT
                            !.fh[p.loc + 1] = partialHash,
                            !.ri[p.loc + 1] =
                                [first |-> extraHash, second |-> Len(t1.arr) - 1]]
                   returnIt == [Iterator(t2, Len(t2.arr) - 1, FALSE)
                                  EXCEPT !.bucketIndex = p.loc]
                   r == IF overMaxLoad(t2) THEN rebalance(t2)
                        ELSE [status |-> "ok", t |-> t2]
               IN  [status |-> r.status,
                    t |-> IF r.status = "ok" THEN [r.t EXCEPT !.te = @ + 1] ELSE r.t,
                    ret |-> returnIt]

\* try_emplace(key, args...): the steps of emplace, with the element built in
\* place from the key and the arguments.
try_emplace(t0, key, v, junk) == emplace(t0, key, v, junk)

-----------------------------------------------------------------------------
(* Erasure *)

\* The fast path: splice one element out of a list of two or more.  The
\* returned iterator keeps the position, which now holds the next element.
removeFromList(t, it, junk) ==
    LET list == t.arr[it.index + 1]
        list2 == [i \in 1 .. (Len(list) - 1) |->
                     IF i < it.listPos THEN list[i] ELSE list[i + 1]]
        t1 == [t EXCEPT !.arr[it.index + 1] = list2]
    IN  [status |-> IF it.listPos > Len(list2) /\ endOrTrap(t1, junk) = "trap"
                    THEN "trap" ELSE "ok",
         t |-> t1,
         ret |-> IF it.listPos > Len(list2) THEN end(t1)
                 ELSE [IteratorAt(t1, it.index, it.all, it.listPos)
                         EXCEPT !.bucketIndex = it.bucketIndex]]

\* The unguarded search of remove for the bucket that points at the last
\* element of arr.  -1: no bucket qualifies and the loop never exits.
RECURSIVE lastSpotLoop(_, _, _, _, _)
lastSpotLoop(t, lastSpotLocation, lastSpotPartialHash, lastSpotExtraHash, fuel) ==
    IF fuel = 0 THEN -1
    ELSE IF /\ getPartialHash(t, lastSpotLocation) = lastSpotPartialHash
            /\ comparePartialHashEx(t, lastSpotLocation, lastSpotExtraHash)
            /\ getRedirectInfo(t, lastSpotLocation) = Len(t.arr) - 1
         THEN lastSpotLocation
    ELSE lastSpotLoop(t, (lastSpotLocation + 1) % getTotalBuckets(t),
                      lastSpotPartialHash, lastSpotExtraHash, fuel - 1)

\* std::swap(v.back(), v[index]); v.pop_back();
SwapAndPop(v, index) ==
    SubSeq([v EXCEPT ![index + 1] = v[Len(v)]], 1, Len(v) - 1)

swapDataStorageAndDelete(t, index) == [t EXCEPT !.arr = SwapAndPop(t.arr, index)]

swapExtraKeyStorageAndDelete_PopOnly(t, index) ==
    IF multi THEN [t EXCEPT !.eks = SubSeq(@, 1, Len(@) - 1)] ELSE t

swapExtraKeyStorageAndDelete(t, index) ==
    IF multi THEN [t EXCEPT !.eks = SwapAndPop(t.eks, index)] ELSE t

\* The backward shift of remove.  The loop ends at an empty bucket or at an
\* entry in its desired spot, and leaves the bucket it copied from last as it
\* is.  Every iteration that does not leave the loop lowers the distance of
\* one entry, so the loop ends.
RECURSIVE shiftLoop(_, _, _)
shiftLoop(t, previousLocation, bucketLocation) ==
    IF getLocationEmpty(t.fh, bucketLocation) THEN t
    ELSE IF getDistanceFromDesiredSpot(t, bucketLocation) > 0
    THEN shiftLoop([t EXCEPT !.fh[previousLocation + 1] = t.fh[bucketLocation + 1],
                             !.ri[previousLocation + 1] = t.ri[bucketLocation + 1]],
                   bucketLocation, (bucketLocation + 1) % getTotalBuckets(t))
    ELSE t

\* The slow path of remove, from the bucket of newIT on.
removeBucket(t, it, newIT, elementCounter, junk) ==
    LET bucketLocation == newIT.bucketIndex
        lastSpotHash == hasher(getKey(t.arr[Len(t.arr)]))
        lastSpotLocation ==
            lastSpotLoop(t, lastSpotHash % getTotalBuckets(t),
                         extractPartialHash(lastSpotHash),
                         extractPartialHashEx(lastSpotHash),
                         getTotalBuckets(t))
    IN  IF lastSpotLocation = -1
        THEN [status |-> "hang", t |-> t, ret |-> end(t)]
        ELSE IF it.index >= Len(t.arr)
        THEN [status |-> "corrupt", t |-> t, ret |-> end(t)]
        ELSE
          LET t1 == [t EXCEPT !.fh[bucketLocation + 1] = 0]
              t2 == swapExtraKeyStorageAndDelete(
                        swapDataStorageAndDelete(t1, it.index), it.index)
              t3 == [t2 EXCEPT !.ri[lastSpotLocation + 1].second =
                                   t2.ri[bucketLocation + 1].second]
              t4 == shiftLoop(t3, bucketLocation,
                              (bucketLocation + 1) % getTotalBuckets(t3))
              t5 == [t4 EXCEPT !.te = @ - elementCounter]
              retIndex == IF newIT.all THEN newIT.index ELSE Len(t5.arr)
          IN  [status |-> IF junk = "trap" /\ readsPastEnd(t5, retIndex)
                          THEN "trap" ELSE "ok",
               t |-> t5, ret |-> Iterator(t5, retIndex, TRUE)]

remove(t, it, deleteAll, junk) ==
    IF endOrTrap(t, junk) = "trap"
    THEN [status |-> "trap", t |-> t, ret |-> end(t)]
    ELSE IF Len(t.arr) = 0 THEN [status |-> "ok", t |-> t, ret |-> end(t)]
    ELSE IF IterEq(it, end(t)) THEN [status |-> "ok", t |-> t, ret |-> end(t)]
    ELSE IF it.index > Len(t.arr) /\ multi
    THEN [status |-> "corrupt", t |-> t, ret |-> end(t)]
    ELSE
      LET elementCounter == elementsAtLocation(t, it.index)
      IN  IF ~deleteAll /\ elementCounter > 1
          THEN removeFromList([t EXCEPT !.te = @ - 1], it, junk)
          ELSE
            LET stale == it.rc # t.rc \/ it.bucketIndex = NoBucket
                f == IF ~stale THEN [kind |-> "found", it |-> it]
                     ELSE IF ~refersToElement(t, it)
                     THEN [kind |-> "trap", it |-> it]
                     ELSE find(t, Deref(t, it).key, junk)
                newIT == [f.it EXCEPT !.all = it.all]
            IN  IF f.kind \in {"hang", "trap"}
                THEN [status |-> f.kind, t |-> t, ret |-> end(t)]
                ELSE IF IterEq(newIT, end(t))
                THEN [status |-> "ok", t |-> t, ret |-> end(t)]
                ELSE removeBucket(t, it, newIT, elementCounter, junk)

-----------------------------------------------------------------------------
(* The operations of the public interface as actions *)

\* Some occupied bucket redirects past the end of arr: only then does a key
\* comparison read out of bounds, and only then does junk matter.
RedirectsPastEnd(t) ==
    \E loc \in 0 .. (getTotalBuckets(t) - 1) :
        ~getLocationEmpty(t.fh, loc) /\ getRedirectInfo(t, loc) >= Len(t.arr)

\* What a read past the end of arr can do: yield a key that differs from the
\* one looked for ("ne") or equals it ("eq"), or stop the program ("trap").
\* The three-argument iterator constructor only keeps what it reads.
JunkOf(t) ==
    {"ne"} \cup (IF RedirectsPastEnd(t) THEN {"eq"} ELSE {})
           \cup (IF RedirectsPastEnd(t) \/ readsPastEnd(t, Len(t.arr))
                 THEN {"trap"} ELSE {})

JunkChoices == JunkOf(This)

\* The effect of an operation whose outcome is r; the iterator it returns
\* (r.ret) goes to the caller.
Apply(r) ==
    /\ fastHashInfo' = r.t.fh
    /\ redirectInfo' = r.t.ri
    /\ arr' = r.t.arr
    /\ extraKeyStorage' = r.t.eks
    /\ totalElements' = r.t.te
    /\ rehashCounter' = r.t.rc
    /\ status' = r.status
    /\ UNCHANGED <<multi, big, arithmeticKey, hashOf, load>>

\* The table stays within the bounds of the model.
Within(t, maxEntries) ==
    /\ t.te <= maxEntries
    /\ Len(t.arr) <= maxEntries
    /\ \A i \in DOMAIN t.arr : Len(t.arr[i]) <= MaxList

\* insert(v) / emplace(v)
InsertUpTo(k, v, maxEntries) ==
    /\ status = "ok"
    /\ \E junk \in JunkChoices :
         LET r == emplace(This, k, v, junk)
         IN  Within(r.t, maxEntries) /\ Apply(r)

Insert(k, v) == InsertUpTo(k, v, MaxEntries)

\* try_emplace(k, v)
TryEmplaceUpTo(k, v, maxEntries) ==
    /\ status = "ok"
    /\ \E junk \in JunkChoices :
         LET r == try_emplace(This, k, v, junk)
         IN  Within(r.t, maxEntries) /\ Apply(r)

TryEmplace(k, v) == TryEmplaceUpTo(k, v, MaxEntries)

\* erase(k): remove(find(k), true)
erase(t, k, junk) ==
    LET f == find(t, k, junk)
    IN  IF f.kind \in {"hang", "trap"}
        THEN [status |-> f.kind, t |-> t, ret |-> f.it]
        ELSE remove(t, f.it, TRUE, junk)

EraseKey(k) ==
    /\ status = "ok"
    /\ \E junk \in JunkChoices : Apply(erase(This, k, junk))

\* The iterators a caller can hold to the elements now stored.
\* All-mode iterators come from begin() and operator++, which sets no bucket
\* index.
AllIterators ==
    { [index |-> i, all |-> TRUE, listPos |-> p, bucketIndex |-> NoBucket,
       rc |-> rehashCounter] :
        i \in 0 .. (Len(arr) - 1), p \in 0 .. MaxList } 

\* Bucket-local iterators come from find (first element, with the bucket
\* index), from operator++ on those (no bucket index) and from insert (last
\* element of the list, with the bucket index).
FindIterators ==
    UNION { LET f == find(This, k, "ne")
            IN  IF f.kind = "found" /\ f.it.index < Len(arr)
                THEN {f.it}
                     \cup { [f.it EXCEPT !.listPos = p, !.bucketIndex = NoBucket] :
                              p \in 2 .. MaxList }
                     \cup { [f.it EXCEPT !.listPos = Len(arr[f.it.index + 1])] }
                ELSE {} : k \in Keys }

ValidIterators ==
    { it \in AllIterators \cup FindIterators :
        IF multi THEN it.listPos \in 1 .. Len(arr[it.index + 1])
        ELSE it.listPos = 0 }

\* erase(it): remove(it, false)
EraseIt(it) ==
    /\ status = "ok"
    /\ \E junk \in JunkChoices :
         Apply(remove(This, it, FALSE, junk))

\* eraseAll(it): remove(it, true)
EraseAllIt(it) ==
    /\ status = "ok"
    /\ \E junk \in JunkChoices :
         Apply(remove(This, it, TRUE, junk))

\* forceRehash()
ForceRehash ==
    /\ status = "ok"
    /\ rehashCounter < MaxRehash
    /\ LET r == rebalance(This)
       IN  Apply([status |-> r.status, t |-> r.t])

\* SimpleHashTable(SimpleHashTable&& other) and operator=(SimpleHashTable&&):
\* the four vectors are move-assigned, which leaves those of other empty;
\* std::move of the two integers copies them.
moveAssign(other) ==
    [dest  |-> other,
     other |-> [other EXCEPT !.fh = << >>, !.ri = << >>, !.arr = << >>,
                             !.eks = << >>]]

\* The table is moved into another one and is used further as the source.
MovedFrom ==
    /\ status = "ok"
    /\ Apply([status |-> "ok", t |-> moveAssign(This).other])

clear_KeepBuckets(t) ==
    [t EXCEPT !.fh = ZeroBytes(Len(@)), !.ri = ZeroPairs(Len(@)),
              !.arr = << >>, !.eks = << >>, !.te = 0, !.rc = @ + 1]

\* clear()
clear(t) ==
    [t EXCEPT !.fh = << >>, !.ri = << >>, !.arr = << >>, !.eks = << >>,
              !.te = 0, !.rc = @ + 1]

fastClear_KeepRedirect(t) ==
    [t EXCEPT !.fh = ZeroBytes(Len(@)),
              !.arr = << >>, !.eks = << >>, !.te = 0, !.rc = @ + 1]

fastClear_KeepCount(t) ==
    [t EXCEPT !.fh = ZeroBytes(Len(@)), !.ri = ZeroPairs(Len(@)),
              !.arr = << >>, !.eks = << >>, !.rc = @ + 1]

\* fastClear()
fastClear(t) ==
    [t EXCEPT !.fh = ZeroBytes(Len(@)), !.ri = ZeroPairs(Len(@)),
              !.arr = << >>, !.eks = << >>, !.te = 0, !.rc = @ + 1]

Clear ==
    /\ status = "ok"
    /\ rehashCounter < MaxRehash
    /\ Apply([status |-> "ok", t |-> clear(This)])

FastClear ==
    /\ status = "ok"
    /\ rehashCounter < MaxRehash
    /\ Apply([status |-> "ok", t |-> fastClear(This)])

-----------------------------------------------------------------------------
(* The single-variant header SimpleHashTable.h *)

\* The table of SimpleHashTable.h has fastHashInfo, redirectInfo and arr
\* only: size() is arr.size(), iterators are those of arr (here: indices,
\* Len(arr) for arr.end()), and there is neither an element counter nor a
\* rehash counter.  Its accessors are those above with multi = FALSE.

\* rebalance() of SimpleHashTable.h: always twice the buckets.
legacy_rebalance(t) ==
    LET newSize == getTotalBuckets(t) * 2
        r == rebalanceLoop(t, 0, ZeroBytes(newSize), ZeroPairs(newSize))
    IN  IF r.status = "ok"
        THEN [status |-> "ok", t |-> [t EXCEPT !.fh = r.fh, !.ri = r.ri]]
        ELSE [status |-> "hang", t |-> t]

\* The tail of emplace and try_emplace: the new entry is the last of arr
\* and goes to the empty bucket loc.
legacy_store(t, loc, actualHash) ==
    LET t2 == [t EXCEPT
                 !.fh[loc + 1] = extractPartialHash(actualHash),
                 !.ri[loc + 1] = [first |-> extractPartialHashEx(actualHash),
                                  second |-> Len(t.arr) - 1]]
        r == IF overMaxLoad(t2) THEN legacy_rebalance(t2)
             ELSE [status |-> "ok", t |-> t2]
    IN  [status |-> r.status, t |-> r.t, ret |-> Len(t.arr) - 1]

\* emplace(v...): the element is appended first and popped again when its
\* key is found.
legacy_emplace(t0, key, v, junk) ==
    LET t == IF getTotalBuckets(t0) = 0
             THEN [t0 EXCEPT !.fh = ZeroBytes(MinBuckets),
                             !.ri = ZeroPairs(MinBuckets)]
             ELSE t0
        t1 == [t EXCEPT !.arr = Append(@, <<[key |-> key, val |-> v]>>)]
        actualHash == hasher(key)
        p == probeLoop(t1, actualHash % getTotalBuckets(t1),
                       extractPartialHash(actualHash),
                       extractPartialHashEx(actualHash), key, junk,
                       getTotalBuckets(t1))
    IN  CASE checkIfOverflowPossible(t) ->
               [status |-> "throw", t |-> t, ret |-> Len(t.arr)]
          [] p.kind = "hang" -> [status |-> "hang", t |-> t1, ret |-> Len(t1.arr)]
          [] p.kind = "trap" -> [status |-> "trap", t |-> t1, ret |-> Len(t1.arr)]
          [] p.kind = "dup" ->
               [status |-> "ok", t |-> t, ret |-> getRedirectInfo(t, p.loc)]
          [] OTHER -> legacy_store(t1, p.loc, actualHash)

\* try_emplace(key, args...): the element is appended only when the key is
\* not found, but the branch for a key that is found pops the last element
\* of arr all the same.  pop_back on an empty arr gives "corrupt".
legacy_try_emplace(t0, key, v, junk) ==
    LET t == IF getTotalBuckets(t0) = 0
             THEN [t0 EXCEPT !.fh = ZeroBytes(MinBuckets),
                             !.ri = ZeroPairs(MinBuckets)]
             ELSE t0
        actualHash == hasher(key)
        p == probeLoop(t, actualHash % getTotalBuckets(t),
                       extractPartialHash(actualHash),
                       extractPartialHashEx(actualHash), key, junk,
                       getTotalBuckets(t))
    IN  CASE checkIfOverflowPossible(t) ->
               [status |-> "throw", t |-> t, ret |-> Len(t.arr)]
          [] p.kind = "hang" -> [status |-> "hang", t |-> t, ret |-> Len(t.arr)]
          [] p.kind = "trap" -> [status |-> "trap", t |-> t, ret |-> Len(t.arr)]
          [] p.kind = "dup" ->
               IF Len(t.arr) = 0
               THEN [status |-> "corrupt", t |-> t, ret |-> Len(t.arr)]
               ELSE [status |-> "ok",
                     t |-> [t EXCEPT !.arr = SubSeq(@, 1, Len(@) - 1)],
                     ret |-> getRedirectInfo(t, p.loc)]
          [] OTHER ->
               legacy_store([t EXCEPT !.arr = Append(@, <<[key |-> key, val |-> v]>>)],
                            p.loc, actualHash)

\* The value a default-constructed Value has.
DefaultValue == 0

\* operator[](k): try_emplace(k)->second
legacy_index(t0, key, junk) == legacy_try_emplace(t0, key, DefaultValue, junk)

\* search(k): an index of arr, Len(arr) for arr.end()
legacy_search(t, k, junk) ==
    IF Len(t.arr) = 0 THEN [kind |-> "end", index |-> Len(t.arr)]
    ELSE
      LET actualHash == hasher(k)
          p == probeLoop(t, actualHash % getTotalBuckets(t),
                         extractPartialHash(actualHash),
                         extractPartialHashEx(actualHash), k, junk,
                         getTotalBuckets(t))
      IN  CASE p.kind = "dup" ->
                 [kind |-> "found", index |-> getRedirectInfo(t, p.loc)]
            [] p.kind = "empty" -> [kind |-> "end", index |-> Len(t.arr)]
            [] OTHER -> [kind |-> p.kind, index |-> Len(t.arr)]

legacy_find(t, k, junk) == legacy_search(t, k, junk)

\* std::swap(v[a], v[b])
SwapAt(v, a, b) == [v EXCEPT ![a + 1] = v[b + 1], ![b + 1] = v[a + 1]]

\* remove(k), from the bucket location in which k was found on.  The
\* redirection of the last element's bucket is overwritten first, and the
\* swap then takes both of its indices from redirectInfo.
legacy_removeAt(t, location) ==
    LET lastSpotHash == hasher(getKey(t.arr[Len(t.arr)]))
        lastSpotLocation ==
            lastSpotLoop(t, lastSpotHash % getTotalBuckets(t),
                         extractPartialHash(lastSpotHash),
                         extractPartialHashEx(lastSpotHash),
                         getTotalBuckets(t))
    IN  IF lastSpotLocation = -1
        THEN [status |-> "hang", t |-> t]
        ELSE
          LET t1 == [t EXCEPT !.fh[location + 1] = 0]
              t2 == [t1 EXCEPT !.ri[lastSpotLocation + 1].second =
                                   t1.ri[location + 1].second]
              a == t2.ri[lastSpotLocation + 1].second
              b == t2.ri[location + 1].second
          IN  IF a >= Len(t.arr) \/ b >= Len(t.arr)
              THEN [status |-> "corrupt", t |-> t2]
              ELSE
                LET t3 == [t2 EXCEPT !.arr = SwapAt(@, a, b)]
                    t4 == shiftLoop(t3, location,
                                    (location + 1) % getTotalBuckets(t3))
                IN  [status |-> "ok",
                     t |-> [t4 EXCEPT !.arr = SubSeq(@, 1, Len(@) - 1)]]

\* remove(k) / erase(k)
legacy_remove(t, k, junk) ==
    IF Len(t.arr) = 0 THEN [status |-> "ok", t |-> t]
    ELSE
      LET actualHash == hasher(k)
          p == probeLoop(t, actualHash % getTotalBuckets(t),
                         extractPartialHash(actualHash),
                         extractPartialHashEx(actualHash), k, junk,
                         getTotalBuckets(t))
      IN  CASE p.kind = "empty" -> [status |-> "ok", t |-> t]
            [] p.kind = "dup" -> legacy_removeAt(t, p.loc)
            [] OTHER -> [status |-> p.kind, t |-> t]

legacy_erase(t, k, junk) == legacy_remove(t, k, junk)

LegacyInsert(k, v) ==
    /\ status = "ok"
    /\ \E junk \in JunkChoices :
         LET r == legacy_emplace(This, k, v, junk)
         IN  Within(r.t, MaxEntries) /\ Apply(r)

LegacyIndex(k) ==
    /\ status = "ok"
    /\ \E junk \in JunkChoices :
         LET r == legacy_index(This, k, junk)
         IN  Within(r.t, MaxEntries) /\ Apply(r)

LegacyErase(k) ==
    /\ status = "ok"
    /\ \E junk \in JunkChoices : Apply(legacy_erase(This, k, junk))

-----------------------------------------------------------------------------
(* Specifications *)

\* The hash function is an input.  Keys are interchangeable apart from their
\* hashes, so only the non-decreasing assignments are enumerated.
HashFuncs(hashVals) ==
    { f \in [Keys -> hashVals] : \A a, b \in Keys : a <= b => f[a] <= f[b] }

\* Hashes that fit RedirectType.  Under the scaled mix 0 and 1 have different
\* partial hashes.
HashVals == 0 .. MaxHash

\* The same, with one hash that does not fit RedirectType.
WideHashVals == HashVals \cup {Pow2(RedirectBits)}

\* SimpleHashTable(): nothing allocated.
Unallocated ==
    /\ fastHashInfo = << >>
    /\ redirectInfo = << >>

\* SimpleHashTable(initSize)
Constructed(initSize) ==
    LET size == IF initSize < MinBuckets THEN MinBuckets ELSE initSize
    IN  /\ fastHashInfo = ZeroBytes(size)
        /\ redirectInfo = ZeroPairs(size)

EmptyTable ==
    /\ arr = << >>
    /\ extraKeyStorage = << >>
    /\ totalElements = 0
    /\ rehashCounter = 0
    /\ status = "ok"

\* No load test on its own.
NoLoadTest == load = [arrSize |-> 0, buckets |-> 0, over |-> "none"]

\* A default-constructed table of any of the four shapes with an arithmetic
\* key type, under every operation of the interface.
Init ==
    /\ multi \in BOOLEAN
    /\ big = FALSE
    /\ arithmeticKey = TRUE
    /\ hashOf \in HashFuncs(HashVals)
    /\ Unallocated
    /\ EmptyTable
    /\ NoLoadTest

Next ==
    \/ \E k \in Keys, v \in Vals : Insert(k, v)
    \/ \E k \in Keys, v \in Vals : TryEmplace(k, v)
    \/ \E k \in Keys : EraseKey(k)
    \/ \E it \in ValidIterators : EraseIt(it)
    \/ \E it \in ValidIterators : EraseAllIt(it)
    \/ ForceRehash
    \/ Clear
    \/ FastClear

Spec == Init /\ [][Next]_vars

\* Insertions only, into a table that was default-constructed or constructed
\* with a bucket hint that is not a power of two.
HintSizes == {MinBuckets + 1}

InitInsert ==
    /\ multi \in BOOLEAN
    /\ big = FALSE
    /\ arithmeticKey = TRUE
    /\ hashOf \in HashFuncs(WideHashVals)
    /\ Unallocated \/ \E initSize \in HintSizes : Constructed(initSize)
    /\ EmptyTable
    /\ NoLoadTest

NextInsert == \E k \in Keys, v \in Vals : Insert(k, v)

SpecInsert == InitInsert /\ [][NextInsert]_vars

\* Insertions and erasures by key only, on a default-constructed table.
NextKeyOps ==
    \/ \E k \in Keys, v \in Vals : Insert(k, v)
    \/ \E k \in Keys : EraseKey(k)

SpecKeyOps == Init /\ [][NextKeyOps]_vars

\* Insertions and erasures by key and by iterator, on a default-constructed
\* table.
NextErase ==
    \/ \E k \in Keys, v \in Vals : Insert(k, v)
    \/ \E k \in Keys : EraseKey(k)
    \/ \E it \in ValidIterators : EraseIt(it)
    \/ \E it \in ValidIterators : EraseAllIt(it)

SpecErase == Init /\ [][NextErase]_vars

\* Insertions and forced rehashes, on a table that was
\* default-constructed or constructed with a bucket hint of which 2 entries
\* are exactly 40 %.
RehashHintSizes == {2 * MinBuckets + 1}

InitRehash ==
    /\ multi \in BOOLEAN
    /\ big = FALSE
    /\ arithmeticKey = TRUE
    /\ hashOf \in HashFuncs(HashVals)
    /\ Unallocated \/ \E initSize \in RehashHintSizes : Constructed(initSize)
    /\ EmptyTable
    /\ NoLoadTest

NextRehash ==
    \/ \E k \in Keys, v \in Vals : Insert(k, v)
    \/ ForceRehash

SpecRehash == InitRehash /\ [][NextRehash]_vars

\* Construction with every bucket hint up to MaxHint, or by default, followed
\* by the operations that allocate or release the bucket arrays.
InitBuckets ==
    /\ multi \in BOOLEAN
    /\ big = FALSE
    /\ arithmeticKey = TRUE
    /\ hashOf \in HashFuncs(HashVals)
    /\ Unallocated \/ \E initSize \in 0 .. MaxHint : Constructed(initSize)
    /\ EmptyTable
    /\ NoLoadTest

NextBuckets ==
    \/ \E k \in Keys, v \in Vals : Insert(k, v)
    \/ ForceRehash
    \/ Clear
    \/ FastClear

SpecBuckets == InitBuckets /\ [][NextBuckets]_vars

\* Insertions into a table that is moved from now and then.
NextMove ==
    \/ \E k \in Keys, v \in Vals : Insert(k, v)
    \/ MovedFrom

SpecMove == Init /\ [][NextMove]_vars

\* Insertions up to the capacity of the non-BIG variants: UINT_MAX - 1
\* buckets of arr, for which UINT_MAX keys are needed.  The keys come in
\* increasing order (a key that is stored, or the next new one), with one
\* value and two hash functions.
OverflowKeys == 0 .. (UINT_MAX - 1)

InitOverflow ==
    /\ multi \in BOOLEAN
    /\ big \in BOOLEAN
    /\ arithmeticKey = TRUE
    /\ hashOf \in { [k \in OverflowKeys |-> k % m] : m \in 1 .. (MaxHash + 1) }
    /\ Unallocated
    /\ EmptyTable
    /\ NoLoadTest

NextOverflow ==
    \/ \E k \in 0 .. Len(arr) :
         k \in OverflowKeys /\ InsertUpTo(k, 0, UINT_MAX)
    \/ \E k \in 0 .. Len(arr) :
         k \in OverflowKeys /\ TryEmplaceUpTo(k, 0, UINT_MAX)

SpecOverflow == InitOverflow /\ [][NextOverflow]_vars

\* Insertions of new and of stored keys and forced rehashes, on a table
\* constructed with an odd bucket hint of which 5 entries are less than 40 %
\* and more than 80 % of its half.
ShrinkHintSizes == {6 * MinBuckets + 1}

InitShrink ==
    /\ multi \in BOOLEAN
    /\ big = FALSE
    /\ arithmeticKey = TRUE
    /\ hashOf \in { [k \in OverflowKeys |-> k % m] : m \in 1 .. (MaxHash + 1) }
    /\ \E initSize \in ShrinkHintSizes : Constructed(initSize)
    /\ EmptyTable
    /\ NoLoadTest

NextShrink ==
    \/ \E k \in 0 .. Len(arr) :
         k \in OverflowKeys /\ InsertUpTo(k, 0, UINT_MAX - 1)
    \/ ForceRehash

SpecShrink == InitShrink /\ [][NextShrink]_vars

\* SimpleHashTable.h: a default-constructed map under insert, operator[]
\* and erase.
InitLegacy ==
    /\ multi = FALSE
    /\ big = FALSE
    /\ arithmeticKey = TRUE
    /\ hashOf \in HashFuncs(HashVals)
    /\ Unallocated
    /\ EmptyTable
    /\ NoLoadTest

NextLegacy ==
    \/ \E k \in Keys, v \in Vals : LegacyInsert(k, v)
    \/ \E k \in Keys : LegacyIndex(k)
    \/ \E k \in Keys : LegacyErase(k)

SpecLegacy == InitLegacy /\ [][NextLegacy]_vars

\* The load test of emplace on its own, at the bucket counts 2^i that a
\* default-constructed table goes through (unscaled: MaxLoadBalance is the
\* float of the source) and the element counts around 4/5 of them.
LoadBuckets == { Pow2(i) : i \in 1 .. MaxLog2Buckets }

LoadInputs ==
    { [arrSize |-> ((4 * b) \div 5) + d, buckets |-> b, over |-> "none"] :
        b \in LoadBuckets, d \in -1 .. 2 }

InitLoad ==
    /\ multi = FALSE
    /\ big = FALSE
    /\ arithmeticKey = TRUE
    /\ hashOf = [k \in Keys |-> 0]
    /\ Unallocated
    /\ EmptyTable
    /\ load \in LoadInputs

LoadTest ==
    /\ load.over = "none"
    /\ load' = [load EXCEPT !.over =
                   IF currentLoadBalanceOver(load.arrSize, load.buckets)
                   THEN "yes" ELSE "no"]
    /\ UNCHANGED <<multi, big, arithmeticKey, hashOf, fastHashInfo, redirectInfo,
                   arr, extraKeyStorage, totalElements, rehashCounter, status>>

SpecLoad == InitLoad /\ [][LoadTest]_vars

-----------------------------------------------------------------------------
(* Vocabulary of the properties *)

Buckets(t) == 0 .. (getTotalBuckets(t) - 1)

Occupied(t) == { b \in Buckets(t) : ~getLocationEmpty(t.fh, b) }

\* The keys that have an entry in arr.
StoredKeys(t) == { getKey(t.arr[i]) : i \in DOMAIN t.arr }

\* find(k) returns an iterator that refers to an element of arr with key k.
Finds(t, k, junk) ==
    LET f == find(t, k, junk)
    IN  /\ f.kind = "found"
        /\ f.it.index < Len(t.arr)
        /\ getKey(t.arr[f.it.index + 1]) = k

\* find(k) returns, and what it returns compares equal to end().
FindsEnd(t, k, junk) ==
    LET f == find(t, k, junk)
    IN  f.kind \in {"end", "found"} /\ IterEq(f.it, end(t))

\* What find(k) dereferences to: the entry (single) or the list (multi).
Found(t, k, junk) == t.arr[find(t, k, junk).it.index + 1]

\* The buckets on the cyclic path from s to b.
ProbePath(t, s, b) ==
    IF s <= b THEN s .. b ELSE (s .. (getTotalBuckets(t) - 1)) \cup (0 .. b)

-----------------------------------------------------------------------------
(* C1..C6 *)

\* C1: single variant, at least 2 entries: erase(k) leaves every other key
\* that find found before findable, and find dereferences to the same entry.
C1_EraseKeepsOtherKeys ==
    (~multi /\ status = "ok" /\ Len(arr) >= 2) =>
        \A k \in Keys, k2 \in Keys, j1 \in JunkOf(This) :
            (k2 # k /\ Finds(This, k2, j1)) =>
                LET r == erase(This, k, j1)
                IN  /\ r.status = "ok"
                    /\ \A j2 \in JunkOf(r.t) :
                         /\ Finds(r.t, k2, j2)
                         /\ Found(r.t, k2, j2) = Found(This, k2, j1)

\* C2: insertions only: every inserted key is found by find, and size() is
\* the number of distinct keys inserted (single) or of insert calls (multi);
\* an insert call adds one to size() unless, in a single variant, the key is
\* stored already.
C2_InsertOnlyFindsAll ==
    /\ status = "ok"
    /\ \A k \in StoredKeys(This), j \in JunkOf(This) : Finds(This, k, j)
    /\ ~multi => totalElements = Cardinality(StoredKeys(This))
    /\ \A k \in Keys, v \in Vals, j1 \in JunkOf(This) :
         LET r == emplace(This, k, v, j1)
         IN  /\ r.status = "ok"
             /\ r.t.te = totalElements
                           + (IF multi \/ k \notin StoredKeys(This) THEN 1 ELSE 0)
             /\ \A j2 \in JunkOf(r.t) : Finds(r.t, k, j2)

\* C3: single variant: erase(k) of a key that find finds takes exactly one
\* from size() and find(k) returns end() afterwards; size() is the number of
\* keys stored, every stored key is found and no other key is.
C3_EraseByKey ==
    (~multi /\ status = "ok") =>
        /\ \A k \in Keys, j1 \in JunkOf(This) :
             Finds(This, k, j1) =>
                LET r == erase(This, k, j1)
                IN  /\ r.status = "ok"
                    /\ r.t.te = totalElements - 1
                    /\ \A j2 \in JunkOf(r.t) : FindsEnd(r.t, k, j2)
        /\ totalElements = Cardinality(StoredKeys(This))
        /\ \A k \in Keys, j \in JunkOf(This) :
             IF k \in StoredKeys(This) THEN Finds(This, k, j)
             ELSE FindsEnd(This, k, j)

\* The start position of the key a bucket holds: H(key) mod B of the key its
\* redirection refers to (of the stored hash when it refers to no element).
StartOf(t, b) ==
    IF getRedirectInfo(t, b) < Len(t.arr)
    THEN hasher(StoredKey(t, getRedirectInfo(t, b))) % getTotalBuckets(t)
    ELSE getPartialHashEx(t, b) % getTotalBuckets(t)

\* C4: the probing invariant: no empty bucket lies between the start position
\* of a bucket's key and the bucket.
C4_ProbingInvariant ==
    \A b \in Occupied(This) :
        ProbePath(This, StartOf(This, b), b) \subseteq Occupied(This)

\* C5: the value indices of the occupied buckets are a permutation of
\* 0 .. |data|-1.
C5_RedirectPermutation ==
    /\ \A b1, b2 \in Occupied(This) :
         getRedirectInfo(This, b1) = getRedirectInfo(This, b2) => b1 = b2
    /\ { getRedirectInfo(This, b) : b \in Occupied(This) } = 0 .. (Len(arr) - 1)

\* C6: every occupied bucket's value index is below |data|, so that no key
\* comparison reads out of bounds.
C6_RedirectInBounds ==
    \A b \in Occupied(This) : getRedirectInfo(This, b) < Len(arr)

-----------------------------------------------------------------------------
(* C7..C10 *)

C8_InsertPostCondition ==
    (~multi /\ status = "ok") =>
        \A k \in Keys, v \in Vals, j1 \in JunkOf(This) :
            LET r == emplace(This, k, v, j1)
            IN  /\ r.status = "ok"
                /\ FindsEnd(This, k, j1) =>
                     /\ r.t.te = totalElements + 1
                     /\ \A j2 \in JunkOf(r.t) :
                          /\ Finds(r.t, k, j2)
                          /\ Found(r.t, k, j2) = <<[key |-> k, val |-> v]>>
                /\ Finds(This, k, j1) =>
                     /\ r.t.te = totalElements
                     /\ r.t.arr = arr
                     /\ r.ret.index = find(This, k, j1).it.index
                     /\ \A j2 \in JunkOf(r.t) :
                          /\ Finds(r.t, k, j2)
                          /\ Found(r.t, k, j2) = Found(This, k, j1)

\* The number of elements stored under key k.
RECURSIVE CountFrom(_, _, _)
CountFrom(t, k, i) ==
    IF i > Len(t.arr) THEN 0
    ELSE (IF getKey(t.arr[i]) = k THEN Len(t.arr[i]) ELSE 0)
         + CountFrom(t, k, i + 1)

Count(t, k) == CountFrom(t, k, 1)

\* The outcomes of a read past the end of arr that let the program go on.
NoTrap(t) == JunkOf(t) \ {"trap"}

\* What C9 asks of the outcome r of removing the whole bucket of key k.
RemovedAll(r, k, n) ==
    /\ r.status = "ok"
    /\ r.t.te = totalElements - n
    /\ \A j2 \in NoTrap(r.t) : FindsEnd(r.t, k, j2)
    /\ \A k2 \in Keys \ {k} : Count(r.t, k2) = Count(This, k2)

\* C9: multi variant: erase(k), and eraseAll on an iterator to k, take the n
\* elements of k from size(), after which find(k) returns end(), and leave
\* the number of elements of every other key as it was.  Stated for the runs
\* in which no read past the end of arr stops the program.
C9_MultiEraseAll ==
    (multi /\ status = "ok") =>
        /\ \A k \in Keys, j1 \in NoTrap(This) :
             Finds(This, k, j1) =>
                RemovedAll(erase(This, k, j1), k, Count(This, k))
        /\ \A it \in ValidIterators, j1 \in NoTrap(This) :
             LET k == getKey(arr[it.index + 1])
             IN  Finds(This, k, j1) =>
                   RemovedAll(remove(This, it, TRUE, j1), k, Count(This, k))

\* The sequence s without its p-th element.
Without(s, p) ==
    [i \in 1 .. (Len(s) - 1) |-> IF i < p THEN s[i] ELSE s[i + 1]]

\* C10: multi variant: an insert under a stored key goes to the end of the
\* key's sequence; erase(it) on an element of a key with at least 2 elements
\* takes one from size(), removes that element and no other, keeps the order
\* of the rest and the key findable, and returns an iterator to the element
\* that followed the erased one, or end() when none did.
C10_MultiEraseOne ==
    (multi /\ status = "ok") =>
        /\ \A k \in Keys, v \in Vals, j1 \in JunkOf(This) :
             Finds(This, k, j1) =>
                LET i == find(This, k, j1).it.index + 1
                    r == emplace(This, k, v, j1)
                IN  /\ r.status = "ok"
                    /\ r.t.arr = [arr EXCEPT ![i] =
                                     Append(@, [key |-> k, val |-> v])]
        /\ \A it \in ValidIterators, j1 \in JunkOf(This) :
             LET list == arr[it.index + 1]
                 k == getKey(list)
                 r == remove(This, it, FALSE, j1)
             IN  Len(list) >= 2 =>
                   /\ r.status = "ok"
                   /\ r.t.te = totalElements - 1
                   /\ r.t.arr = [arr EXCEPT ![it.index + 1] =
                                    Without(list, it.listPos)]
                   /\ Finds(This, k, j1) =>
                        /\ Finds(r.t, k, j1)
                        /\ find(r.t, k, j1).it.index = find(This, k, j1).it.index
                   /\ IF it.listPos < Len(list)
                      THEN /\ r.ret.index = it.index
                           /\ Deref(r.t, r.ret) = list[it.listPos + 1]
                      ELSE IterEq(r.ret, end(r.t))

-----------------------------------------------------------------------------
(* C11..C20 *)

\* find(k) gives the same answer on t1 and t2: both return end(), or both
\* return an iterator with the same value index.
SameFind(t1, t2, k, junk) ==
    LET f1 == find(t1, k, junk)
        f2 == find(t2, k, junk)
    IN  /\ f1.kind \in {"end", "found"}
        /\ f2.kind \in {"end", "found"}
        /\ IterEq(f1.it, end(t1)) <=> IterEq(f2.it, end(t2))
        /\ f1.it.index = f2.it.index

\* C11: forceRehash, in any reachable state, returns and leaves size(), data
\* and key_shadow as they are, and find gives the same answer for every key
\* as before.
C11_ForceRehashKeepsContent ==
    status = "ok" =>
        LET r == rebalance(This)
        IN  /\ r.status = "ok"
            /\ r.t.te = totalElements
            /\ r.t.arr = arr
            /\ r.t.eks = extraKeyStorage
            /\ \A k \in Keys, j \in NoTrap(This) : SameFind(This, r.t, k, j)

\* C12: an insertion rehashes iff, with the new entry appended, |data| / B is
\* above 0.80: the load test of emplace says "over" exactly for the element
\* counts n and bucket counts B with n / B > 4/5.  At B = 1024 (2^10) that is
\* from n = 820 on.
C12_RehashThreshold ==
    load.over # "none" =>
        (load.over = "yes" <=> 5 * load.arrSize > 4 * load.buckets)

\* C13: a rehash that returns, of a table with B > 0 buckets and load
\* |data| / B, produces B/2 buckets if the load is below 0.40, 2*B if it is
\* at least 0.80 and B otherwise, and at least the floor of 1024 (MinBuckets)
\* in every case.
C13_RehashBucketCount ==
    (status = "ok" /\ getTotalBuckets(This) > 0) =>
        LET B == getTotalBuckets(This)
            n == Len(arr)
            want == IF 5 * n < 2 * B THEN B \div 2
                    ELSE IF 5 * n >= 4 * B THEN 2 * B
                    ELSE B
            r == rebalance(This)
        IN  r.status = "ok" =>
              getTotalBuckets(r.t) = (IF want > MinBuckets THEN want ELSE MinBuckets)

\* C14: forceRehash on a default-constructed table that was never inserted
\* into (no bucket array allocated) changes nothing: getTotalBuckets() stays
\* 0, size() stays 0 and the rehash counter keeps its value.
C14_ForceRehashUnallocated ==
    (status = "ok" /\ Unallocated /\ Len(arr) = 0 /\ rehashCounter = 0) =>
        LET r == rebalance(This)
        IN  /\ r.status = "ok"
            /\ getTotalBuckets(r.t) = 0
            /\ r.t.te = 0
            /\ r.t.rc = rehashCounter
            /\ r.t = This

\* What C15 asks of an iterator it to key k, taken before a rehash, on the
\* rehashed table t: it dereferences to k's entry, and erase(it) returns,
\* takes the removed element from size(), leaves find(k) at end() when it
\* removed the last element of k, and leaves every other key findable.
SurvivesRehash(t, it, k, junk) ==
    /\ it.rc # t.rc
    /\ refersToElement(t, it)
    /\ Deref(t, it).key = k
    /\ LET r == remove(t, it, FALSE, junk)
       IN  /\ r.status = "ok"
           /\ r.t.te = t.te - 1
           /\ elementsAtLocation(t, it.index) = 1 =>
                \A j2 \in NoTrap(r.t) : FindsEnd(r.t, k, j2)
           /\ \A k2 \in Keys \ {k} :
                Finds(t, k2, junk) => \A j2 \in NoTrap(r.t) : Finds(r.t, k2, j2)

\* C15: an iterator from find(k), or returned by insert(k, ..), survives a
\* later rehash, forced or triggered by that insertion or by a later one.
\* Stated for the rehashes that return and the runs in which no read past the
\* end of arr stops the program.
C15_IteratorSurvivesRehash ==
    status = "ok" =>
        \A k \in Keys, j \in NoTrap(This) :
            /\ Finds(This, k, j) =>
                 /\ LET r == rebalance(This)
                    IN  r.status = "ok" =>
                          SurvivesRehash(r.t, find(This, k, j).it, k, j)
                 /\ \A k2 \in Keys, v \in Vals :
                      LET r == emplace(This, k2, v, j)
                      IN  (r.status = "ok" /\ r.t.rc # rehashCounter) =>
                            SurvivesRehash(r.t, find(This, k, j).it, k, j)
            /\ \A v \in Vals :
                 LET i == emplace(This, k, v, j)
                     r == IF i.status = "ok" /\ i.t.rc = rehashCounter
                          THEN rebalance(i.t) ELSE i
                 IN  (i.status = "ok" /\ r.status = "ok") =>
                       \A j2 \in NoTrap(r.t) : SurvivesRehash(r.t, i.ret, k, j2)

\* C16: single variant: after erase(k), an iterator that find returned before
\* the erase for another key x, whose entry was not the last of data, is
\* still valid: it dereferences to the same entry, its bucket is the occupied
\* bucket whose value index is the iterator's, and erase through it removes
\* that entry and no other (x is gone, every other key that was findable
\* still is).
C16_EraseKeepsIterators ==
    (~multi /\ status = "ok") =>
        \A k \in Keys, x \in Keys, j \in JunkOf(This) :
            LET it == find(This, x, j).it
                r1 == erase(This, k, j)
            IN  (/\ x # k
                 /\ Finds(This, k, j)
                 /\ Finds(This, x, j)
                 /\ it.index # Len(arr) - 1
                 /\ r1.status = "ok") =>
                  /\ refersToElement(r1.t, it)
                  /\ Deref(r1.t, it) = Deref(This, it)
                  /\ ~getLocationEmpty(r1.t.fh, it.bucketIndex)
                  /\ getRedirectInfo(r1.t, it.bucketIndex) = it.index
                  /\ \A j2 \in JunkOf(r1.t) :
                       LET r2 == remove(r1.t, it, FALSE, j2)
                       IN  /\ r2.status = "ok"
                           /\ r2.t.te = r1.t.te - 1
                           /\ r2.t.arr = SwapAndPop(r1.t.arr, it.index)
                           /\ \A j3 \in JunkOf(r2.t) :
                                /\ FindsEnd(r2.t, x, j3)
                                /\ \A y \in Keys \ {x} :
                                     Finds(r1.t, y, j2) => Finds(r2.t, y, j3)

\* The outcome r of an erasure is a no-op: it returns end() and leaves ctrl,
\* redir, data, key_shadow, size() and the rehash counter as they are.
NoOp(r) ==
    /\ r.status = "ok"
    /\ r.t = This
    /\ IterEq(r.ret, end(This))

\* C17: erase of a key that is not stored, erase (by key or by iterator) on a
\* table with no entries, and erase / eraseAll of an iterator equal to end()
\* are no-ops that return end().
C17_EraseNoOps ==
    status = "ok" =>
        \A j \in JunkOf(This) :
            /\ \A k \in Keys \ StoredKeys(This) : NoOp(erase(This, k, j))
            /\ Len(arr) = 0 =>
                 /\ \A k \in Keys : NoOp(erase(This, k, j))
                 /\ \A deleteAll \in BOOLEAN :
                      NoOp(remove(This, begin(This), deleteAll, j))
            /\ \A deleteAll \in BOOLEAN :
                 NoOp(remove(This, end(This), deleteAll, j))

\* C18: without BIG, insert / emplace / try_emplace on a table whose data
\* holds UINT_MAX - 1 entries throws and leaves ctrl, redir, data,
\* key_shadow, size() and the rehash counter as they were; with BIG no
\* insertion throws.
C18_OverflowCheckFirst ==
    status = "ok" =>
        \A k \in OverflowKeys, j \in JunkOf(This) :
            LET r == emplace(This, k, 0, j)
                e == try_emplace(This, k, 0, j)
            IN  /\ big => (r.status # "throw" /\ e.status # "throw")
                /\ (~big /\ Len(arr) = UINT_MAX - 1) =>
                     /\ r.status = "throw" /\ r.t = This
                     /\ e.status = "throw" /\ e.t = This

\* An insertion into a non-BIG table with UINT_MAX - 1 entries has thrown.
C18_Witness ==
    /\ status = "throw"
    /\ ~big
    /\ Len(arr) = UINT_MAX - 1
    /\ totalElements >= UINT_MAX - 1

\* C19: the bucket count is 0 (nothing allocated) or at least 1024
\* (MinBuckets) in every state; the constructor with hint n allocates exactly
\* max(n, 1024) buckets, an insertion into an unallocated table allocates
\* exactly 1024, and no rehash produces fewer than 1024.
C19_BucketFloor ==
    /\ getTotalBuckets(This) = 0 \/ getTotalBuckets(This) >= MinBuckets
    /\ Len(redirectInfo) = getTotalBuckets(This)
    /\ \A n \in 0 .. MaxHint :
         Constructed(n) =>
             getTotalBuckets(This) = (IF n > MinBuckets THEN n ELSE MinBuckets)
    /\ status = "ok" =>
         /\ getTotalBuckets(This) = 0 =>
              \A k \in Keys, v \in Vals, j \in JunkOf(This) :
                  LET r == emplace(This, k, v, j)
                  IN  r.status = "ok" /\ getTotalBuckets(r.t) = MinBuckets
         /\ LET r == rebalance(This)
            IN  r.status = "ok" => getTotalBuckets(r.t) >= MinBuckets

\* After a rehash or a clear, a table with entries at the floor.
C19_Witness ==
    /\ status = "ok"
    /\ rehashCounter > 0
    /\ Len(arr) >= 1
    /\ getTotalBuckets(This) = MinBuckets

\* The number of elements the data array holds: its entries, or in the multi
\* variants the sum of the lengths of its lists.
RECURSIVE SumLengths(_, _)
SumLengths(a, i) ==
    IF i > Len(a) THEN 0 ELSE Len(a[i]) + SumLengths(a, i + 1)

ElementCount(t) == IF multi THEN SumLengths(t.arr, 1) ELSE Len(t.arr)

C21_MoveResetsSource ==
    status = "ok" =>
        /\ totalElements = ElementCount(This)
        /\ LET m == moveAssign(This)
           IN  /\ m.dest = This
               /\ m.other.te = 0
               /\ m.other.te = ElementCount(m.other)

\* C22: clear, in any reachable state, leaves size() = 0, no bucket and
\* empty data and key_shadow; every find then returns end(), and the next
\* insertion allocates exactly 1024 (MinBuckets) buckets and stores its
\* element, whatever the bucket count was before.
C22_ClearDeallocates ==
    status = "ok" =>
        LET c == clear(This)
        IN  /\ c.te = 0
            /\ getTotalBuckets(c) = 0
            /\ c.ri = << >>
            /\ c.arr = << >>
            /\ c.eks = << >>
            /\ \A k \in Keys, j \in JunkOf(c) :
                 /\ find(c, k, j).kind = "end"
                 /\ FindsEnd(c, k, j)
                 /\ \A v \in Vals :
                      LET r == emplace(c, k, v, j)
                      IN  /\ r.status = "ok"
                          /\ getTotalBuckets(r.t) = MinBuckets
                          /\ r.t.te = 1
                          /\ Len(r.t.arr) = 1
                          /\ \A j2 \in JunkOf(r.t) : Finds(r.t, k, j2)

\* A table with entries and more buckets than the floor, for clear to
\* release.
C22_Witness ==
    /\ status = "ok"
    /\ getTotalBuckets(This) > MinBuckets
    /\ Len(arr) >= 2
    /\ getTotalBuckets(clear(This)) = 0

\* C23: fastClear, in any reachable state, zeroes every control byte and
\* every redirection entry, empties data and key_shadow, sets size() to 0 and
\* keeps the bucket count; the table then behaves like a freshly allocated
\* empty one of that bucket count: every find returns end() and every
\* inserted key is found again.
C23_FastClearKeepsBuckets ==
    status = "ok" =>
        LET c == fastClear(This)
        IN  /\ c.fh = ZeroBytes(getTotalBuckets(This))
            /\ c.ri = ZeroPairs(getTotalBuckets(This))
            /\ c.arr = << >>
            /\ c.eks = << >>
            /\ c.te = 0
            /\ \A k \in Keys, j \in JunkOf(c) :
                 /\ find(c, k, j).kind = "end"
                 /\ FindsEnd(c, k, j)
                 /\ \A v \in Vals :
                      LET r == emplace(c, k, v, j)
                      IN  /\ r.status = "ok"
                          /\ r.t.te = 1
                          /\ Len(r.t.arr) = 1
                          /\ getTotalBuckets(This) > 0 =>
                               r.t.fh = [c.fh EXCEPT
                                   ![(hasher(k) % getTotalBuckets(This)) + 1] =
                                       extractPartialHash(hasher(k))]
                          /\ \A j2 \in JunkOf(r.t) : Finds(r.t, k, j2)

\* A table with entries and more buckets than the floor, for fastClear to
\* zero.
C23_Witness ==
    /\ status = "ok"
    /\ getTotalBuckets(This) > MinBuckets
    /\ Len(arr) >= 2
    /\ fastClear(This).fh # fastHashInfo
    /\ getTotalBuckets(fastClear(This)) = getTotalBuckets(This)

\* The bucket count an insertion works with: that of the table, or the
\* floor when it has to allocate first.
BucketsForInsert(t) ==
    IF getTotalBuckets(t) = 0 THEN MinBuckets ELSE getTotalBuckets(t)

\* C24: rehash_counter is incremented exactly by the operations that
\* reallocate or reset the bucket arrays: clear, rehash and fastClear
\* increment it by one; erase by key, erase and eraseAll by iterator (fast
\* path and slow path) and an insertion that triggers no rehash leave it
\* unchanged, and an insertion increments it exactly when it rehashes.
C24_RehashCounter ==
    status = "ok" =>
        /\ clear(This).rc = rehashCounter + 1
        /\ fastClear(This).rc = rehashCounter + 1
        /\ rebalance(This).t.rc = rehashCounter + 1
        /\ \A j \in JunkOf(This) :
             /\ \A k \in Keys : erase(This, k, j).t.rc = rehashCounter
             /\ \A it \in ValidIterators, deleteAll \in BOOLEAN :
                  remove(This, it, deleteAll, j).t.rc = rehashCounter
             /\ \A k \in Keys, v \in Vals :
                  LET r == emplace(This, k, v, j)
                  IN  r.status = "ok" =>
                        /\ r.t.rc \in {rehashCounter, rehashCounter + 1}
                        /\ r.t.rc = rehashCounter + 1 <=>
                             getTotalBuckets(r.t) # BucketsForInsert(This)

\* After an insertion has rehashed: the counter is 1 and the table has
\* grown beyond the floor.
C24_Witness ==
    /\ status = "ok"
    /\ rehashCounter = 1
    /\ getTotalBuckets(This) = 2 * MinBuckets
    /\ Len(arr) = MinBuckets
    /\ totalElements = MinBuckets

\* for (it = from; it != end(); ++it) visit(*it): the places visited, as
\* pairs of an index of arr and a position in the list there, and the
\* number of advances.
RECURSIVE Traversal(_, _, _, _)
Traversal(t, it, junk, fuel) ==
    IF endOrTrap(t, junk) = "trap"
    THEN [kind |-> "trap", seen |-> << >>, steps |-> 0]
    ELSE IF IterEq(it, end(t))
    THEN [kind |-> "end", seen |-> << >>, steps |-> 0]
    ELSE IF fuel = 0
    THEN [kind |-> "overrun", seen |-> << >>, steps |-> 0]
    ELSE IF ~refersToElement(t, it)
    THEN [kind |-> "trap", seen |-> << >>, steps |-> 0]
    ELSE LET n == increment(t, it, junk)
             rest == Traversal(t, n.it, junk, fuel - 1)
             here == <<it.index, IF multi THEN it.listPos ELSE 1>>
         IN  IF n.kind = "trap"
             THEN [kind |-> "trap", seen |-> <<here>>, steps |-> 0]
             ELSE [kind |-> rest.kind, seen |-> <<here>> \o rest.seen,
                   steps |-> rest.steps + 1]

\* Every element of arr in data order, list by list.
RECURSIVE Places(_, _, _)
Places(t, i, p) ==
    IF i >= Len(t.arr) THEN << >>
    ELSE IF p > Len(t.arr[i + 1]) THEN Places(t, i + 1, 1)
    ELSE <<(<<i, p>>)>> \o Places(t, i, p + 1)

\* C25: with no mutation during the traversal, advancing an all-mode
\* iterator from begin() reaches end() after exactly size() advances and
\* dereferences every stored element exactly once, list by list in data
\* order; on an empty table begin() equals end().
C25_TraversalVisitsAll ==
    status = "ok" =>
        \A j \in JunkOf(This) :
            LET tr == Traversal(This, begin(This), j, totalElements + 1)
            IN  /\ tr.kind = "end"
                /\ tr.steps = totalElements
                /\ tr.seen = Places(This, 0, 1)
                /\ totalElements = 0 => IterEq(begin(This), end(This))

\* The iterator an insertion of key k with value v has returned refers to an
\* element with key k: in the multi variants the element just appended, in
\* the single variants the new or the already stored entry.
RefersToInserted(r, k, v) ==
    /\ refersToElement(r.t, r.ret)
    /\ Deref(r.t, r.ret).key = k
    /\ multi => /\ r.ret.listPos = Len(r.t.arr[r.ret.index + 1])
                /\ Deref(r.t, r.ret).val = v

\* C26: the iterator returned by insert / emplace / try_emplace refers to
\* the newly constructed element (in the single variants on a duplicate key,
\* to the existing one): dereferencing it right after the call yields an
\* entry with the inserted key, also for the first insertion into an empty
\* multi table and for a multi table whose keys are all distinct.
C26_InsertReturnsElement ==
    status = "ok" =>
        \A k \in Keys, v \in Vals, j \in JunkOf(This) :
            /\ LET r == emplace(This, k, v, j)
               IN  r.status = "ok" => RefersToInserted(r, k, v)
            /\ LET r == try_emplace(This, k, v, j)
               IN  r.status = "ok" => RefersToInserted(r, k, v)

\* C27: whenever an operation has returned and buckets are allocated, the
\* load |data| / B is at most 0.80; an insertion that raises the load above
\* 0.80 rehashes before it returns, and a rehash triggered by an insertion
\* doubles the bucket count.
C27_LoadBound ==
    status = "ok" =>
        /\ getTotalBuckets(This) > 0 =>
             5 * Len(arr) <= 4 * getTotalBuckets(This)
        /\ \A k \in DOMAIN hashOf, v \in Vals, j \in JunkOf(This) :
             LET r == emplace(This, k, v, j)
                 B == BucketsForInsert(This)
             IN  r.status = "ok" =>
                   /\ 5 * Len(r.t.arr) > 4 * B => r.t.rc = rehashCounter + 1
                   /\ r.t.rc = rehashCounter + 1 =>
                        getTotalBuckets(r.t) = 2 * B
                   /\ 5 * Len(r.t.arr) <= 4 * getTotalBuckets(r.t)

\* legacy find(k) returns the entry e of arr.
LegacyFinds(t, k, junk, e) ==
    LET f == legacy_find(t, k, junk)
    IN  /\ f.kind = "found"
        /\ f.index < Len(t.arr)
        /\ t.arr[f.index + 1] = e

\* The entry of arr with key k.
EntryOf(t, k) == CHOOSE e \in {t.arr[i] : i \in DOMAIN t.arr} : getKey(e) = k

\* C28: in SimpleHashTable.h, erase(k) of a stored key removes it by
\* swap-with-last: afterwards find(k) returns end(), size() is one less, and
\* every other stored key, the one that was last in arr included, is still
\* found with its own value.
C28_LegacyErase ==
    status = "ok" =>
        \A k \in StoredKeys(This), j \in JunkOf(This) :
            LET r == legacy_erase(This, k, j)
            IN  /\ r.status = "ok"
                /\ Len(r.t.arr) = Len(arr) - 1
                /\ \A j2 \in JunkOf(r.t) :
                     /\ legacy_find(r.t, k, j2).kind = "end"
                     /\ \A x \in StoredKeys(This) \ {k} :
                          LegacyFinds(r.t, x, j2, EntryOf(This, x))

\* C29: in SimpleHashTable.h, operator[](k) with k already stored returns
\* the reference to the existing value and leaves size() and arr unchanged.
C29_LegacyIndexKeepsTable ==
    status = "ok" =>
        \A k \in StoredKeys(This), j \in JunkOf(This) :
            LET r == legacy_index(This, k, j)
            IN  /\ r.status = "ok"
                /\ r.t.arr = arr
                /\ r.ret < Len(r.t.arr)
                /\ r.t.arr[r.ret + 1] = EntryOf(This, k)

\* C30: the slow-path erase, which removes a whole bucket, ends its backward
\* shift by clearing the last vacated slot: the number of occupied control
\* bytes after the erase is one less than before, and equals |data|.
C30_EraseClearsVacatedSlot ==
    status = "ok" =>
        \A k \in StoredKeys(This), j \in JunkOf(This) :
            LET r == erase(This, k, j)
            IN  r.status = "ok" =>
                  /\ Cardinality(Occupied(r.t)) = Cardinality(Occupied(This)) - 1
                  /\ Cardinality(Occupied(r.t)) = Len(r.t.arr)

\* C31: in every state reachable by insertions and erasures, at least one
\* control byte is 0 whenever buckets are allocated, the occupied buckets
\* being no more than |data|, and so every probe loop of find, insert and
\* try_emplace terminates.
C31_ProbeLoopsTerminate ==
    /\ status # "hang"
    /\ status = "ok" =>
         /\ getTotalBuckets(This) > 0 =>
              /\ Occupied(This) # Buckets(This)
              /\ Cardinality(Occupied(This)) <= Len(arr)
         /\ \A k \in Keys, j \in JunkOf(This) :
              /\ find(This, k, j).kind # "hang"
              /\ \A v \in Vals :
                   /\ emplace(This, k, v, j).status # "hang"
                   /\ try_emplace(This, k, v, j).status # "hang"

\* The bucket at which the unguarded search of remove for the last element
\* of arr stops, -1 if it never stops.
LastSpot(t) ==
    LET lastSpotHash == hasher(getKey(t.arr[Len(t.arr)]))
    IN  lastSpotLoop(t, lastSpotHash % getTotalBuckets(t),
                     extractPartialHash(lastSpotHash),
                     extractPartialHashEx(lastSpotHash), getTotalBuckets(t))

\* C32: in every state reachable by insertions and erasures by key or by
\* valid iterator, the unguarded search of the slow-path erase for the bucket
\* that points at the last data index terminates: some occupied bucket
\* redirects to |data| - 1 and has the partial hash (and stored hash) of the
\* key at data.back().
C32_LastSpotSearchTerminates ==
    (status = "ok" /\ Len(arr) > 0) =>
        /\ getTotalBuckets(This) > 0
        /\ LastSpot(This) # -1
        /\ LastSpot(This) \in Occupied(This)
        /\ getRedirectInfo(This, LastSpot(This)) = Len(arr) - 1

\* C33: in every reachable state every occupied bucket b redirects to an
\* entry of data, redir[b].full_hash is the hash of that entry's key
\* truncated to RedirectType, and ctrl[b] is the partial hash of that key.
C33_BucketMatchesEntry ==
    status = "ok" =>
        \A b \in Occupied(This) :
            /\ getRedirectInfo(This, b) < Len(arr)
            /\ LET key == getKey(arr[getRedirectInfo(This, b) + 1])
               IN  /\ getPartialHashEx(This, b) = extractPartialHashEx(hasher(key))
                   /\ getPartialHash(This, b) = extractPartialHash(hasher(key))

\* C34: in the multi variants, in every reachable state, key_shadow is as
\* long as data, every data[i] is a non-empty sequence and key_shadow[i] is
\* the key of every element of data[i]; the swap-and-pop of an erase acts on
\* both at the same index.
C34_KeyShadowMatchesData ==
    (status = "ok" /\ multi) =>
        /\ Len(extraKeyStorage) = Len(arr)
        /\ \A i \in DOMAIN arr :
             /\ Len(arr[i]) >= 1
             /\ \A e \in DOMAIN arr[i] : arr[i][e].key = extraKeyStorage[i]

\* A multi table after a slow-path erase with a backward shift (a control
\* byte is left over) that still holds two keys, one with two elements.
C34_Witness ==
    /\ status = "ok"
    /\ multi
    /\ Len(arr) >= 2
    /\ \E i \in DOMAIN arr : Len(arr[i]) >= 2
    /\ Cardinality(Occupied(This)) > Len(arr)

\* C35: without BIG, for every reachable bucket count B, hint-constructed
\* ones that are no power of two and their doublings and halvings included,
\* and every stored key k at bucket b, the start position that rehash and
\* distance-from-desired compute from the cached hash (the truncated hash
\* mod B) is the one find, insert and erase compute from the 64-bit hash
\* (H(k) mod B).
C35_CachedStartMatches ==
    (status = "ok" /\ ~big) =>
        \A b \in Occupied(This) :
            getRedirectInfo(This, b) < Len(arr) =>
                LET h == hasher(StoredKey(This, getRedirectInfo(This, b)))
                    B == getTotalBuckets(This)
                IN  /\ getPartialHashEx(This, b) % B = h % B
                    /\ getDistanceFromDesiredSpot(This, b) = (b + B - (h % B)) % B
                    /\ \A newSize \in {2 * B} \cup ({B \div 2} \ (0 .. MinBuckets - 1)) :
                         specialInsertStart(This, b, newSize) = h % newSize

\* C36: in the single variants, after any sequence of insertions and
\* erasures, no two entries of data have equal keys.
C36_SingleKeysDistinct ==
    (status = "ok" /\ ~multi) =>
        \A i \in DOMAIN arr, j \in DOMAIN arr :
            i # j => getKey(arr[i]) # getKey(arr[j])

\* C37: in the multi variant, constructing an iterator never reads arr at an
\* index >= |arr|: end(), begin() and the result of find are built without
\* such a read, also when a key holds two or more elements, and no
\* operation stops on one.
C37_IteratorConstructionInBounds ==
    /\ status # "trap"
    /\ (status = "ok" /\ multi) =>
          /\ ~readsPastEnd(This, Len(arr))
          /\ ~readsPastEnd(This, 0)
          /\ \A k \in Keys, j \in JunkOf(This) :
                find(This, k, j).kind # "trap"

\* it, advanced once in table t, equals t.end().
AdvancesToEnd(t, it, junk) ==
    LET n == increment(t, it, junk)
    IN  n.kind = "ok" /\ IterEq(n.it, end(t))

\* C38: in the single variant a bucket-local iterator, returned by find or
\* by insert, ranges over at most one element: advanced once it equals
\* end(), whatever the position of its element in arr.
C38_BucketLocalIsOneElement ==
    (status = "ok" /\ ~multi) =>
        \A k \in Keys, j \in JunkOf(This) :
            /\ LET f == find(This, k, j)
               IN  f.kind = "found" => AdvancesToEnd(This, f.it, j)
            /\ \A v \in Vals :
                 LET r == emplace(This, k, v, j)
                 IN  (r.status = "ok" /\ ~r.ret.all) =>
                        AdvancesToEnd(r.t, r.ret, j)

\* for (it = from; it != end(); ) { visit(*it);
\*     if (doomed(*it)) it = erase(it); else ++it; }
\* on a single-variant table: the keys visited, in order.
RECURSIVE EraseLoop(_, _, _, _, _)
EraseLoop(t, it, doomed, junk, fuel) ==
    IF IterEq(it, end(t)) THEN [kind |-> "end", seen |-> << >>]
    ELSE IF fuel = 0 THEN [kind |-> "overrun", seen |-> << >>]
    ELSE IF ~refersToElement(t, it) THEN [kind |-> "trap", seen |-> << >>]
    ELSE
      LET key == Deref(t, it).key
      IN  IF key \in doomed
          THEN LET r == remove(t, it, FALSE, junk)
                   rest == EraseLoop(r.t, r.ret, doomed, junk, fuel - 1)
               IN  IF r.status # "ok"
                   THEN [kind |-> r.status, seen |-> <<key>>]
                   ELSE [kind |-> rest.kind, seen |-> <<key>> \o rest.seen]
          ELSE LET n == increment(t, it, junk)
                   rest == EraseLoop(t, n.it, doomed, junk, fuel - 1)
               IN  [kind |-> rest.kind, seen |-> <<key>> \o rest.seen]

\* How many entries of the sequence s equal x.
Occurrences(s, x) == Cardinality({i \in DOMAIN s : s[i] = x})

\* erase(it) of the all-mode iterator it has removed its element from t and
\* returned, in r, an all-mode iterator at the same index.
ErasedInPlace(t, it, r) ==
    /\ r.status = "ok"
    /\ Len(r.t.arr) = Len(t.arr) - 1
    /\ r.ret.all
    /\ r.ret.bucketIndex = NoBucket
    /\ r.ret.index = it.index
    /\ IF it.index = Len(t.arr) - 1
       THEN IterEq(r.ret, end(r.t))
       ELSE /\ refersToElement(r.t, r.ret)
            /\ Deref(r.t, r.ret) = t.arr[Len(t.arr)][1]

\* C39: in the single variant erase(it) on an all-mode iterator removes the
\* element and returns an all-mode iterator with the same index, which
\* refers to the element moved in from the back of arr or equals end() when
\* the erased element was the last one; a loop from begin() that at each
\* step erases the current element, continuing from the returned iterator,
\* or advances, visits every element present at its start exactly once and
\* ends at end().
C39_EraseWhileIterating ==
    (status = "ok" /\ ~multi) =>
        \A j \in JunkOf(This) :
            /\ \A i \in 0 .. (Len(arr) - 1) :
                  LET it == Iterator(This, i, TRUE)
                  IN  ErasedInPlace(This, it, remove(This, it, FALSE, j))
            /\ \A doomed \in SUBSET Keys :
                  LET run == EraseLoop(This, begin(This), doomed, j,
                                       Len(arr) + 1)
                  IN  /\ run.kind = "end"
                      /\ Len(run.seen) = Len(arr)
                      /\ \A k \in Keys :
                            Occurrences(run.seen, k) =
                              Cardinality({i \in DOMAIN arr :
                                             arr[i][1].key = k})

\* The probe of search without the two hash tests: walk from loc to the
\* first empty bucket, comparing the stored key with keyEqualFunc only.
RECURSIVE referenceProbe(_, _, _, _, _)
referenceProbe(t, loc, key, junk, fuel) ==
    IF fuel = 0 THEN [kind |-> "hang", loc |-> loc]
    ELSE IF getLocationEmpty(t.fh, loc) THEN [kind |-> "empty", loc |-> loc]
    ELSE IF (IF getRedirectInfo(t, loc) < Len(t.arr)
             THEN StoredKey(t, getRedirectInfo(t, loc)) = key
             ELSE junk = "eq")
         THEN [kind |-> "dup", loc |-> loc]
    ELSE referenceProbe(t, (loc + 1) % getTotalBuckets(t), key, junk,
                        fuel - 1)

\* search with that probe: "found" and the index in arr, or "end" and the
\* index of end().
referenceFind(t, k, junk) ==
    IF Len(t.arr) = 0 \/ getTotalBuckets(t) = 0
    THEN [kind |-> "end", index |-> Len(t.arr)]
    ELSE LET p == referenceProbe(t, hasher(k) % getTotalBuckets(t), k, junk,
                                 getTotalBuckets(t))
         IN  CASE p.kind = "dup" ->
                    [kind |-> "found", index |-> getRedirectInfo(t, p.loc)]
               [] p.kind = "empty" -> [kind |-> "end", index |-> Len(t.arr)]
               [] OTHER -> [kind |-> "hang", index |-> Len(t.arr)]

\* What find(k) returns, in the same terms.
findResult(t, k, junk) ==
    LET f == find(t, k, junk)
    IN  [kind |-> f.kind, index |-> f.it.index]

\* C40: the two-tier filter is a pure optimisation: in every reachable
\* state and for every key, find, with the partial-hash test and with the
\* stored-hash test elided for arithmetic keys or applied for other keys,
\* returns what a linear probe from the key's start bucket returns that
\* stops at the first empty bucket and compares keys only: end() or the same
\* index in arr.
C40_FilterIsPureOptimisation ==
    status = "ok" =>
        \A k \in Keys, j \in NoTrap(This) :
            findResult(This, k, j) = referenceFind(This, k, j)

====
